---- MODULE Spec2Model ----
(***************************************************************************)
(* x402 image uploader service (src/backend/test-server.js, lines 205-406; *)
(* the table it writes is declared in src/unnamed/part_000).               *)
(*                                                                         *)
(* One Express application: paymentMiddleware guards POST /upload, multer   *)
(* parses and filters the multipart body, the handler writes the bytes to  *)
(* the storage bucket and then inserts a row into the images table.        *)
(*                                                                         *)
(* A request is handled in steps separated by the handler's awaits on the  *)
(* storage bucket and on the table; everything a request does between two  *)
(* such awaits touches only that request and is one action.  The payment    *)
(* facilitator, the bucket and the database are external: whether each is  *)
(* failing at the moment of a step is an input of that step (down).        *)
(***************************************************************************)
EXTENDS Integers, Sequences, FiniteSets, TLC

\* Bounds of the model.
MaxUploads == 2   \* uploads admitted to the handler body in one behaviour
MaxClock == 2     \* milliseconds the clock can advance

VARIABLES
    env,        \* process.env as read at lines 216-218
    server,     \* "starting" | "listening" | "exited"
    now,        \* the wall clock in ms (Date.now(), new Date())
    bucket,     \* storage bucket: path -> object
    images,     \* the images table, rows in insertion order
    insertedBy, \* history: for each row of images, the request that inserted it
    inflight,   \* uploads suspended at an await of the handler
    nUploads,   \* uploads admitted to the handler body so far
    sent201,    \* history: the 201 responses sent so far
    last        \* <<>>, or <<the response being sent, with its request>>

vars == <<env, server, now, bucket, images, insertedBy, inflight, nUploads, sent201, last>>

Services == {"facilitator", "storage", "db"}

----------------------------------------------------------------------------
\* Configuration (lines 213-223).

facilitatorUrl == env.FACILITATOR_URL

payTo == env.ADDRESS

\* Variant of network: the default identifier is forgotten.
networkWithoutDefault == env.NETWORK

network == IF env.NETWORK # "" THEN env.NETWORK ELSE "base-sepolia"

\* line 220: !facilitatorUrl || !payTo (unset and empty are both falsy)
envMissing == facilitatorUrl = "" \/ payTo = ""

\* limits.fileSize, line 238
fileSize == 5 * 1024 * 1024

STORAGE_BUCKET == "images"

----------------------------------------------------------------------------
\* Requests the clients send.

\* A content type "type/subtype".
Mime(t, s) == [type |-> t, subtype |-> s]

png == Mime("image", "png")

txt == Mime("text", "plain")

\* One file part of a multipart body.
FilePart(field, name, mime, size) ==
    [fieldname |-> field, originalname |-> name, mimetype |-> mime, size |-> size]

\* Multipart bodies: no file; an image; an image one byte over the limit; a
\* text file, within and over the limit; a file in another field; two files.
Bodies ==
    { <<>> }
    \cup { <<FilePart("image", "a.png", png, s)>> : s \in {1, fileSize + 1} }
    \cup { <<FilePart("image", "a.txt", txt, s)>> : s \in {1, fileSize + 1} }
    \cup { <<FilePart("file", "a.png", png, 1)>>, <<FilePart("file", "a.txt", txt, 1)>> }
    \cup { <<FilePart("image", "a.png", png, 1), FilePart("image", "b.png", png, 1)>> }
    \cup { <<FilePart("image", "a.png", png, 1), FilePart("file", "a.txt", txt, 1)>> }

\* The bodies sent without an accepted payment: no file, an image, a text
\* file, an oversized image.
UnpaidBodies ==
    { <<>>,
      <<FilePart("image", "a.png", png, 1)>>,
      <<FilePart("image", "a.txt", txt, 1)>>,
      <<FilePart("image", "a.png", png, fileSize + 1)>> }

\* payment: the X-PAYMENT header: absent, present but not a payment the
\* facilitator accepts, or a payment it accepts.
Payments == {"none", "rejected", "valid"}

Request(method, path, payment, user, files) ==
    [method |-> method, path |-> path, payment |-> payment,
     userAddress |-> user, files |-> files]

\* Uploads with an x-user-address header, and one without it whose file is
\* exactly as long as the limit.
UploadRequests ==
    { Request("POST", "/upload", "valid", "test-user-123", b) : b \in Bodies }
    \cup { Request("POST", "/upload", p, "test-user-123", b) :
             p \in Payments \ {"valid"}, b \in UnpaidBodies }
    \cup { Request("POST", "/upload", "valid", "",
                   <<FilePart("image", "b.png", png, fileSize)>>) }

OtherRequests ==
    { Request("GET", p, "none", "", <<>>) :
        p \in {"/health", "/images", "/upload", "/nowhere"} }

Requests == UploadRequests \cup OtherRequests

----------------------------------------------------------------------------
\* A response: what res.status(..).json(..) sent, with the request it answers,
\* the middleware and handlers that ran for it, and the calls it made to the
\* external services.
NoCalls == [facilitator |-> 0, storage |-> 0, db |-> 0]

Response(id, req, status, body, stages, calls, down) ==
    [id |-> id, req |-> req, status |-> status, body |-> body,
     stages |-> stages, calls |-> calls, down |-> down]

----------------------------------------------------------------------------
\* Payment gate: paymentMiddleware(payTo, {'POST /upload': ...}, {url}),
\* lines 250-267.

\* Variant of routeMatches: the gate guards every route.
routeMatchesEveryRoute(req) == TRUE

\* The one protected route, line 255.
routeMatches(req) == req.method = "POST" /\ req.path = "/upload"

\* The terms the gate offers, built from lines 253-261.
paymentRequirements ==
    << [scheme |-> "exact", network |-> network, payTo |-> payTo,
        price |-> "$0.0001", description |-> "Upload image to storage",
        resource |-> "/upload"] >>

challenge(error) ==
    [x402Version |-> 1, error |-> error, accepts |-> paymentRequirements]

\* The gate's verdict on a request: next (the request goes on to the routes)
\* or a 402 challenge; facilitator counts the verification calls it made.
\* A payment is verified by the facilitator, and a facilitator that fails
\* refuses it.
paymentMiddleware(req, down) ==
    IF ~routeMatches(req)
    THEN [next |-> TRUE, facilitator |-> 0]
    ELSE IF req.payment = "none"
    THEN [next |-> FALSE, facilitator |-> 0,
          body |-> challenge("X-PAYMENT header is required")]
    ELSE IF req.payment = "valid" /\ "facilitator" \notin down
    THEN [next |-> TRUE, facilitator |-> 1]
    ELSE [next |-> FALSE, facilitator |-> 1,
          body |-> challenge("Payment verification failed")]

----------------------------------------------------------------------------
\* Upload validator: multer({storage: memoryStorage, limits, fileFilter}),
\* lines 235-248, used as upload.single('image'), line 300.

NoError == <<>>

MulterError(code, message) ==
    <<[name |-> "MulterError", code |-> code, message |-> message]>>

Error(message) == <<[name |-> "Error", code |-> "", message |-> message]>>

\* Variant of isImage: every content type is let through.
isImageAnyType(file) == TRUE

\* file.mimetype.startsWith('image/'), line 242
isImage(file) == file.mimetype.type = "image"

\* fileFilter, lines 240-247: the error it hands to cb, or none
fileFilter(file) ==
    IF isImage(file) THEN NoError ELSE Error("Only image files are allowed!")

\* Variant of fileTooLarge: the limit is the 10MB of the comments.
fileTooLargeAt10MB(file) == file.size > 10 * 1024 * 1024

\* limits.fileSize, lines 237-239: a file longer than the limit is refused
fileTooLarge(file) == file.size > fileSize

\* upload.single('image'): the file parts are taken in the order they arrive.
\* A part in another field, or a second part in 'image', is an unexpected
\* file; then the fileFilter is asked; then the bytes are read into memory
\* under the size limit.  The first refusal ends the parse with that error.
\* Result: [error, file], each <<>> or a one-element sequence.
RECURSIVE single(_, _, _, _)
single(field, parts, filesLeft, file) ==
    IF parts = <<>> THEN [error |-> NoError, file |-> file]
    ELSE LET part == Head(parts) IN
         IF part.fieldname # field \/ filesLeft <= 0
         THEN [error |-> MulterError("LIMIT_UNEXPECTED_FILE", "Unexpected field"),
               file |-> <<>>]
         ELSE IF fileFilter(part) # NoError
         THEN [error |-> fileFilter(part), file |-> <<>>]
         ELSE IF fileTooLarge(part)
         THEN [error |-> MulterError("LIMIT_FILE_SIZE", "File too large"),
               file |-> <<>>]
         ELSE single(field, Tail(parts), filesLeft - 1, <<part>>)

upload(req) == single("image", req.files, 1, <<>>)

\* Error handling middleware, lines 373-386: the response to an error that
\* a middleware passed to next().
errorHandler(error) ==
    IF error.name = "MulterError" /\ error.code = "LIMIT_FILE_SIZE"
    THEN [status |-> 400, body |-> [error |-> "File too large. Maximum size is 10MB."]]
    ELSE IF error.message = "Only image files are allowed!"
    THEN [status |-> 400, body |-> [error |-> "Only image files are allowed"]]
    ELSE [status |-> 500, body |-> [error |-> "Internal server error"]]

----------------------------------------------------------------------------
\* Storage bucket and images table, as the handlers use them.

\* `${Date.now()}-${file.originalname}`, then `uploads/${fileName}`,
\* lines 308-309
filePathOf(t, file) == "uploads/" \o ToString(t) \o "-" \o file.originalname

\* supabase.storage.from(bucket).getPublicUrl(filePath), lines 325-327:
\* computed locally, no call to the storage service
getPublicUrl(filePath) ==
    "https://project.supabase.co/storage/v1/object/public/"
        \o STORAGE_BUCKET \o "/" \o filePath

\* Variant of storageUpload: upsert, a path that holds an object is
\* overwritten.
storageUploadUpsert(b, filePath, by, file, down) ==
    IF "storage" \in down
    THEN [error |-> TRUE, bucket |-> b]
    ELSE [error |-> FALSE,
          bucket |-> [p \in DOMAIN b \cup {filePath} |->
                        IF p = filePath
                        THEN [buffer |-> by, contentType |-> file.mimetype]
                        ELSE b[p]]]

\* supabase.storage.from(bucket).upload(filePath, file.buffer, {contentType,
\* duplex}), lines 312-317.  No upsert option is given, so a path that holds
\* an object is refused.  by stands for the bytes of the request's file.
\* Result: [error, bucket].
storageUpload(b, filePath, by, file, down) ==
    IF "storage" \in down
    THEN [error |-> TRUE, bucket |-> b]
    ELSE IF filePath \in DOMAIN b
    THEN [error |-> TRUE, bucket |-> b]
    ELSE [error |-> FALSE,
          bucket |-> [p \in DOMAIN b \cup {filePath} |->
                        IF p = filePath
                        THEN [buffer |-> by, contentType |-> file.mimetype]
                        ELSE b[p]]]

\* Variant of imageRecord: public_url holds the storage path, not the URL.
imageRecordWithPathAsUrl(req, file, filePath, publicUrl, t) ==
    [user_address |-> req.userAddress,
     path |-> filePath,
     mime |-> file.mimetype,
     uploaded_at |-> t,
     public_url |-> filePath,
     file_size |-> file.size,
     original_name |-> file.originalname]

\* imageRecord, lines 330-338; userAddress "" is the absent header (null).
\* uploaded_at is new Date().toISOString(), which the timestamptz column
\* reads back as the same millisecond: it is kept as the millisecond.
imageRecord(req, file, filePath, publicUrl, t) ==
    [user_address |-> req.userAddress,
     path |-> filePath,
     mime |-> file.mimetype,
     uploaded_at |-> t,
     public_url |-> publicUrl,
     file_size |-> file.size,
     original_name |-> file.originalname]

\* The row the table stores for a record: the record's columns and the id
\* the table generates (src/unnamed/part_000 line 5).
rowOf(record, id) ==
    [id |-> id,
     user_address |-> record.user_address,
     path |-> record.path,
     mime |-> record.mime,
     uploaded_at |-> record.uploaded_at,
     public_url |-> record.public_url,
     file_size |-> record.file_size,
     original_name |-> record.original_name]

\* Variant of orderByUploadedAtDesc: the rows in the reverse of the order
\* they were inserted in.
orderByInsertionDesc(table) ==
    { [i \in 1..Len(table) |-> table[Len(table) + 1 - i]] }

\* .from('images').select('*').order('uploaded_at', {ascending: false}),
\* lines 281-284: every way of listing all rows of the table with
\* uploaded_at never increasing (rows with equal uploaded_at come in any
\* order).
orderByUploadedAtDesc(table) ==
    LET n == Len(table)
        perms == { f \in [1..n -> 1..n] : \A i, j \in 1..n : i # j => f[i] # f[j] }
        sorted(f) == \A i \in 1..n : \A j \in 1..n :
                        i < j => table[f[i]].uploaded_at >= table[f[j]].uploaded_at
    IN { [i \in 1..n |-> table[f[i]]] : f \in { g \in perms : sorted(g) } }

----------------------------------------------------------------------------
\* The state after the module is loaded and before app.listen.

\* Every variable set, or one of them unset.
Environments ==
    LET set == [FACILITATOR_URL |-> "https://facilitator.example",
                ADDRESS |-> "0xPayee",
                NETWORK |-> "base"]
    IN {set} \cup { [set EXCEPT ![v] = ""] : v \in DOMAIN set }

Init ==
    /\ env \in Environments
    /\ server = "starting"
    /\ now = 1
    /\ bucket = <<>>
    /\ images = <<>>
    /\ insertedBy = <<>>
    /\ inflight = {}
    /\ nUploads = 0
    /\ sent201 = {}
    /\ last = <<>>

\* Lines 216-223 and 394: process.exit(1) when a required variable is
\* missing, otherwise the server listens.
Start ==
    /\ server = "starting"
    /\ server' = IF envMissing THEN "exited" ELSE "listening"
    /\ UNCHANGED <<env, now, bucket, images, insertedBy, inflight, nUploads, sent201, last>>

\* The server takes steps while it listens.  A response is taken off the
\* wire before the next step: no step reads last, so this orders the steps
\* without removing any.
serving == server = "listening" /\ last = <<>>

\* The client receives the response.
Deliver ==
    /\ last # <<>>
    /\ last' = <<>>
    /\ UNCHANGED <<env, server, now, bucket, images, insertedBy, inflight, nUploads, sent201>>

\* The clock advances.
Tick ==
    /\ serving
    /\ now < MaxClock
    /\ now' = now + 1
    /\ UNCHANGED <<env, server, bucket, images, insertedBy, inflight, nUploads, sent201, last>>

\* What ran for a request that reached the body of the upload handler.
handlerStages == <<"paymentMiddleware", "upload.single", "handler">>

\* The calls a request has made once the gate has run.
gateCalls(req, down) ==
    [NoCalls EXCEPT !.facilitator = paymentMiddleware(req, down).facilitator]

\* A request answered in one step: nothing but the response changes.
Answer(req, status, body, stages, calls, down) ==
    /\ last' = <<Response(0, req, status, body, stages, calls, down)>>
    /\ UNCHANGED <<env, server, now, bucket, images, insertedBy, inflight, nUploads, sent201>>

\* paymentMiddleware short-circuits with the 402 challenge (lines 251-267).
PaymentRequired(req, down) ==
    /\ serving
    /\ ~paymentMiddleware(req, down).next
    /\ Answer(req, 402, paymentMiddleware(req, down).body,
              <<"paymentMiddleware">>, gateCalls(req, down), down)

\* GET /health, lines 270-276.
Health(req, down) ==
    /\ serving
    /\ paymentMiddleware(req, down).next
    /\ req.method = "GET" /\ req.path = "/health"
    /\ Answer(req, 200,
              [status |-> "ok",
               message |-> "x402 Image Uploader Service is running",
               timestamp |-> now],
              <<"paymentMiddleware", "health">>, gateCalls(req, down), down)

\* GET /images, lines 279-296: one select on the table.
Images(req, down) ==
    /\ serving
    /\ paymentMiddleware(req, down).next
    /\ req.method = "GET" /\ req.path = "/images"
    /\ IF "db" \in down
       THEN Answer(req, 500, [error |-> "Failed to fetch images"],
                   <<"paymentMiddleware", "images">>,
                   [gateCalls(req, down) EXCEPT !.db = 1], down)
       ELSE \E data \in orderByUploadedAtDesc(images) :
               Answer(req, 200, [images |-> data],
                      <<"paymentMiddleware", "images">>,
                      [gateCalls(req, down) EXCEPT !.db = 1], down)

\* POST /upload, line 300 and lines 373-386: upload.single('image') refuses
\* the body and the error handling middleware answers.
UploadRejected(req, down) ==
    /\ serving
    /\ paymentMiddleware(req, down).next
    /\ req.method = "POST" /\ req.path = "/upload"
    /\ upload(req).error # NoError
    /\ LET res == errorHandler(upload(req).error[1])
       IN Answer(req, res.status, res.body,
                 <<"paymentMiddleware", "upload.single", "errorHandler">>,
                 gateCalls(req, down), down)

\* POST /upload, lines 303-305: no req.file.
UploadNoFile(req, down) ==
    /\ serving
    /\ paymentMiddleware(req, down).next
    /\ req.method = "POST" /\ req.path = "/upload"
    /\ upload(req).error = NoError
    /\ upload(req).file = <<>>
    /\ Answer(req, 400, [error |-> "No image file provided"], handlerStages,
              gateCalls(req, down), down)

\* POST /upload, lines 303-317: the handler names the object after the clock
\* and the file and awaits the storage upload.
UploadBegin(req, down) ==
    /\ serving
    /\ nUploads < MaxUploads
    /\ paymentMiddleware(req, down).next
    /\ req.method = "POST" /\ req.path = "/upload"
    /\ upload(req).error = NoError
    /\ upload(req).file # <<>>
    /\ LET file == upload(req).file[1]
       IN inflight' = inflight \cup
            {[id |-> nUploads + 1, req |-> req, file |-> file,
              filePath |-> filePathOf(now, file),
              pc |-> "storage",
              publicUrl |-> "",
              record |-> <<>>,
              calls |-> gateCalls(req, down)]}
    /\ nUploads' = nUploads + 1
    /\ UNCHANGED <<env, server, now, bucket, images, insertedBy, sent201, last>>

\* Variant of uploadError: the result of the storage upload is not looked at.
uploadErrorIgnored(result) == FALSE

\* if (uploadError), line 319, on the result of the storage upload
uploadError(result) == result.error

\* if (dbError), line 346: the insert fails when the database does
dbError(down) == "db" \in down

\* Variant of uploadFailed: a failed storage upload is answered as a success.
uploadFailedAsSuccess ==
    [status |-> 201, body |-> [message |-> "Image uploaded successfully"]]

\* Lines 320-321: the answer to a failed storage upload.
uploadFailed == [status |-> 500, body |-> [error |-> "Failed to upload image to storage"]]

\* Variant of metadataSaveFailed: a failed insert fails the whole request.
metadataSaveFailedAsError(publicUrl, filePath) ==
    [status |-> 500, body |-> [error |-> "Failed to save image metadata"]]

\* Lines 349-353: the answer when the insert failed after the bytes were
\* stored.
metadataSaveFailed(publicUrl, filePath) ==
    [status |-> 201,
     body |-> [message |-> "Image uploaded successfully (metadata save failed)",
               url |-> publicUrl,
               path |-> filePath]]

\* Lines 357-363: the answer when the bytes are stored and the row inserted.
uploadSucceeded(dbData, publicUrl, filePath) ==
    [status |-> 201,
     body |-> [message |-> "Image uploaded successfully",
               id |-> dbData.id,
               url |-> publicUrl,
               path |-> filePath,
               uploadedAt |-> dbData.uploaded_at]]

\* Lines 312-338: the storage upload returns.  On an error the handler
\* answers 500; otherwise it takes the public URL, builds the record with
\* the time of this moment and awaits the insert.
StorageReturns(u, down) ==
    /\ serving
    /\ u \in inflight
    /\ u.pc = "storage"
    /\ LET r == storageUpload(bucket, u.filePath, u.id, u.file, down)
           calls == [u.calls EXCEPT !.storage = @ + 1]
           publicUrl == getPublicUrl(u.filePath)
       IN /\ bucket' = r.bucket
          /\ IF uploadError(r)
             THEN /\ last' = <<Response(u.id, u.req, uploadFailed.status, uploadFailed.body,
                                        handlerStages, calls, down)>>
                  /\ inflight' = inflight \ {u}
             ELSE /\ inflight' = (inflight \ {u}) \cup
                       {[u EXCEPT !.pc = "db",
                                  !.publicUrl = publicUrl,
                                  !.record = <<imageRecord(u.req, u.file, u.filePath, publicUrl, now)>>,
                                  !.calls = calls]}
                  /\ UNCHANGED last
    /\ UNCHANGED <<env, server, now, images, insertedBy, nUploads, sent201>>

\* Lines 340-363: the insert returns.  On an error the handler answers 201
\* with url and path; otherwise 201 with the row's id and uploaded_at too.
InsertReturns(u, down) ==
    /\ serving
    /\ u \in inflight
    /\ u.pc = "db"
    /\ LET calls == [u.calls EXCEPT !.db = @ + 1]
           dbData == rowOf(u.record[1], Len(images) + 1)
           res == IF dbError(down)
                  THEN metadataSaveFailed(u.publicUrl, u.filePath)
                  ELSE uploadSucceeded(dbData, u.publicUrl, u.filePath)
       IN /\ IF dbError(down)
             THEN UNCHANGED <<images, insertedBy>>
             ELSE /\ images' = Append(images, dbData)
                  /\ insertedBy' = Append(insertedBy, u.id)
          /\ last' = <<Response(u.id, u.req, res.status, res.body, handlerStages, calls, down)>>
          /\ sent201' = IF res.status = 201
                        THEN sent201 \cup {[url |-> res.body.url, recorded |-> "id" \in DOMAIN res.body]}
                        ELSE sent201
    /\ inflight' = inflight \ {u}
    /\ UNCHANGED <<env, server, now, bucket, nUploads>>

\* '*' handler, lines 389-391: no route took the request.
NotFound(req, down) ==
    /\ serving
    /\ paymentMiddleware(req, down).next
    /\ ~(req.method = "GET" /\ req.path = "/health")
    /\ ~(req.method = "GET" /\ req.path = "/images")
    /\ ~(req.method = "POST" /\ req.path = "/upload")
    /\ Answer(req, 404, [error |-> "Endpoint not found"],
              <<"paymentMiddleware", "notFound">>, gateCalls(req, down), down)

\* The steps of the listening server, one per way a request is answered or
\* carried on.  Each draws the request (or the awaited upload) and the
\* services that fail during the step.
PaymentRequiredStep ==
    /\ serving
    /\ \E req \in Requests, down \in SUBSET {"facilitator"} : PaymentRequired(req, down)

HealthStep ==
    /\ serving
    /\ \E req \in Requests, down \in SUBSET Services : Health(req, down)

ImagesStep ==
    /\ serving
    /\ \E req \in Requests, down \in SUBSET {"db"} : Images(req, down)

UploadRejectedStep ==
    /\ serving
    /\ \E req \in Requests : UploadRejected(req, {})

UploadNoFileStep ==
    /\ serving
    /\ \E req \in Requests : UploadNoFile(req, {})

UploadBeginStep ==
    /\ serving
    /\ \E req \in Requests : UploadBegin(req, {})

NotFoundStep ==
    /\ serving
    /\ \E req \in Requests : NotFound(req, {})

StorageReturnsStep ==
    /\ serving
    /\ \E u \in inflight, down \in SUBSET {"storage"} : StorageReturns(u, down)

InsertReturnsStep ==
    /\ serving
    /\ \E u \in inflight, down \in SUBSET {"db"} : InsertReturns(u, down)

Next ==
    \/ Start
    \/ Tick
    \/ Deliver
    \/ PaymentRequiredStep
    \/ HealthStep
    \/ ImagesStep
    \/ UploadRejectedStep
    \/ UploadNoFileStep
    \/ UploadBeginStep
    \/ NotFoundStep
    \/ StorageReturnsStep
    \/ InsertReturnsStep

Spec == Init /\ [][Next]_vars

----------------------------------------------------------------------------
\* Properties.

isUpload(req) == req.method = "POST" /\ req.path = "/upload"

RowIndex == DOMAIN images

\* C1: every POST /upload without a valid payment credential is answered 402
\* with a requirement list that has an entry whose network and payTo are
\* non-empty, whatever file it carries; only the payment gate ran for it, it
\* made no storage write and no database insert, and no upload that is
\* suspended in the handler lacks a valid credential.
C1_UnpaidUploadIs402 ==
    /\ \A i \in DOMAIN last :
          (isUpload(last[i].req) /\ last[i].req.payment # "valid") =>
             /\ last[i].status = 402
             /\ \E k \in DOMAIN last[i].body.accepts :
                   /\ last[i].body.accepts[k].network # ""
                   /\ last[i].body.accepts[k].payTo # ""
             /\ last[i].stages = <<"paymentMiddleware">>
             /\ last[i].calls.storage = 0
             /\ last[i].calls.db = 0
    /\ \A u \in inflight : u.req.payment = "valid"

\* C1 witness: an upload without a payment header and with an image file is
\* answered 402 by a server started without NETWORK.
C1_Witness ==
    /\ last # <<>>
    /\ env.NETWORK = ""
    /\ isUpload(last[1].req)
    /\ last[1].req.payment = "none"
    /\ last[1].req.files # <<>>
    /\ last[1].status = 402

\* C2 as stated: every 201 response has a non-empty url, and every GET
\* /images answered after it lists a record whose public_url is that url.
C2_Every201IsListed ==
    \A i \in DOMAIN last :
       /\ (isUpload(last[i].req) /\ last[i].status = 201) => last[i].body.url # ""
       /\ (last[i].req.method = "GET" /\ last[i].req.path = "/images" /\ last[i].status = 200) =>
             \A sent \in sent201 :
                \E k \in DOMAIN last[i].body.images :
                   last[i].body.images[k].public_url = sent.url

\* C2 amended: every 201 response has a non-empty url, and every GET /images
\* answered 200 after a 201 response that carries an id lists a record whose
\* public_url is that response's url.
C2_Recorded201IsListed ==
    \A i \in DOMAIN last :
       /\ (isUpload(last[i].req) /\ last[i].status = 201) => last[i].body.url # ""
       /\ (last[i].req.method = "GET" /\ last[i].req.path = "/images" /\ last[i].status = 200) =>
             \A sent \in sent201 :
                sent.recorded =>
                   \E k \in DOMAIN last[i].body.images :
                      last[i].body.images[k].public_url = sent.url

\* C2 witness: GET /images is answered 200 after a 201 response with an id.
C2_Witness ==
    /\ last # <<>>
    /\ last[1].req.path = "/images"
    /\ last[1].status = 200
    /\ \E sent \in sent201 : sent.recorded

\* C3: when the storage write succeeded and the insert then failed, the
\* response is 201 with url and path and neither id nor uploadedAt; the
\* object written by the request is still in the bucket and the table has no
\* row for it.
C3_InsertFailureIsPartialSuccess ==
    \A i \in DOMAIN last :
       (isUpload(last[i].req) /\ last[i].calls.db = 1 /\ "db" \in last[i].down) =>
          /\ last[i].status = 201
          /\ DOMAIN last[i].body = {"message", "url", "path"}
          /\ last[i].body.url # ""
          /\ last[i].body.path \in DOMAIN bucket
          /\ bucket[last[i].body.path].buffer = last[i].id
          /\ \A k \in RowIndex :
                images[k].path # last[i].body.path /\ insertedBy[k] # last[i].id

\* C3 witness: an upload is answered after its insert failed.
C3_Witness ==
    /\ last # <<>>
    /\ isUpload(last[1].req)
    /\ last[1].calls.storage = 1
    /\ last[1].calls.db = 1
    /\ "db" \in last[1].down

\* The request passed the payment gate.
paid(r) == r.req.payment = "valid" /\ "facilitator" \notin r.down

hasNonImage(req) ==
    \E k \in DOMAIN req.files : req.files[k].mimetype.type # "image"

hasOversized(req) ==
    \E k \in DOMAIN req.files : req.files[k].size > fileSize

\* C4 as stated: every POST /upload with a file whose content type does not
\* start with "image/" is answered 400 and makes no storage write and no
\* database insert.
C4_NonImageIs400 ==
    \A i \in DOMAIN last :
       (isUpload(last[i].req) /\ hasNonImage(last[i].req)) =>
          /\ last[i].status = 400
          /\ last[i].calls.storage = 0
          /\ last[i].calls.db = 0

\* C4 amended: a POST /upload with a file whose content type does not start
\* with "image/" makes no storage write and no database insert and never
\* reaches the handler's awaits; it is answered 402 when it did not pass the
\* payment gate, and 400 "Only image files are allowed" when it passed the
\* gate and the file is the first file part, in the field image.
C4_NonImageNeverStored ==
    /\ \A i \in DOMAIN last :
          (isUpload(last[i].req) /\ hasNonImage(last[i].req)) =>
             /\ last[i].calls.storage = 0
             /\ last[i].calls.db = 0
             /\ ~paid(last[i]) => last[i].status = 402
             /\ ( /\ paid(last[i])
                  /\ last[i].req.files[1].fieldname = "image"
                  /\ last[i].req.files[1].mimetype.type # "image" ) =>
                   /\ last[i].status = 400
                   /\ last[i].body.error = "Only image files are allowed"
    /\ \A u \in inflight : ~hasNonImage(u.req)

\* C4 witness: a paid upload of a text file in the field image is answered
\* 400.
C4_Witness ==
    /\ last # <<>>
    /\ isUpload(last[1].req)
    /\ paid(last[1])
    /\ Len(last[1].req.files) = 1
    /\ last[1].req.files[1].fieldname = "image"
    /\ last[1].req.files[1].mimetype.type = "text"
    /\ last[1].status = 400

C6_ListingIsByUploadedAtDesc ==
    \A i \in DOMAIN last :
       (last[i].req.method = "GET" /\ last[i].req.path = "/images" /\ last[i].status = 200) =>
          LET data == last[i].body.images
          IN /\ Len(data) = Len(images)
             /\ \A k \in RowIndex : \E j \in DOMAIN data : data[j] = images[k]
             /\ \A a \in DOMAIN data : \A b \in DOMAIN data :
                   a < b => data[a].uploaded_at >= data[b].uploaded_at

\* C6 witness: GET /images is answered when the row inserted first has the
\* later uploaded_at.
C6_Witness ==
    /\ last # <<>>
    /\ last[1].req.path = "/images"
    /\ last[1].status = 200
    /\ Len(images) = 2
    /\ images[1].uploaded_at > images[2].uploaded_at

GetHealth == Request("GET", "/health", "none", "", <<>>)

\* C7: every GET /health is answered 200 with status "ok" and without a call
\* to the facilitator, the bucket or the database; and whenever the server
\* is listening it gives that answer in every state of those three.
C7_HealthIsAlwaysOk ==
    /\ \A i \in DOMAIN last :
          (last[i].req.method = "GET" /\ last[i].req.path = "/health") =>
             /\ last[i].status = 200
             /\ last[i].body.status = "ok"
             /\ last[i].calls = NoCalls
    /\ serving => \A down \in SUBSET Services : ENABLED Health(GetHealth, down)

\* C7 witness: GET /health is answered while the facilitator, the bucket and
\* the database all fail.
C7_Witness ==
    /\ last # <<>>
    /\ last[1].req.path = "/health"
    /\ last[1].req.method = "GET"
    /\ last[1].down = Services
    /\ last[1].status = 200

usable(req) ==
    /\ Len(req.files) = 1
    /\ req.files[1].fieldname = "image"
    /\ req.files[1].mimetype.type = "image"
    /\ req.files[1].size <= fileSize

\* C9 as stated: every paid POST /upload that carries no usable file (none, a
\* file in another field, more than one file, a non-image, an oversized
\* file) is answered 400 with a message and makes no storage write and no
\* database insert.
C9_UnusableFileIs400 ==
    \A i \in DOMAIN last :
       (isUpload(last[i].req) /\ paid(last[i]) /\ ~usable(last[i].req)) =>
          /\ last[i].status = 400
          /\ last[i].body.error # ""
          /\ last[i].calls.storage = 0
          /\ last[i].calls.db = 0

\* C10: every row of the table has the path of an object the bucket holds,
\* written by the request that inserted the row, and the public URL of that
\* path; an upload that is still waiting for its storage write, or that was
\* answered anything but 201, has inserted no row.
C10_RecordsFollowStoredObjects ==
    /\ \A k \in RowIndex :
          /\ images[k].path \in DOMAIN bucket
          /\ bucket[images[k].path].buffer = insertedBy[k]
          /\ images[k].public_url = getPublicUrl(images[k].path)
    /\ \A u \in inflight :
          u.pc = "storage" => \A k \in RowIndex : insertedBy[k] # u.id
    /\ \A i \in DOMAIN last :
          (isUpload(last[i].req) /\ last[i].status # 201) =>
             /\ last[i].calls.db = 0
             /\ \A k \in RowIndex : insertedBy[k] # last[i].id

\* C10 witness: the table holds a row and an upload whose storage write
\* failed is answered.
C10_Witness ==
    /\ Len(images) >= 1
    /\ last # <<>>
    /\ isUpload(last[1].req)
    /\ last[1].calls.storage = 1
    /\ last[1].status = 500

\* The uploads in the handler body, by the number the request was given.
inflightIds == {u.id : u \in inflight}

\* The storage upload of u returned in this step.
storageReturned(u) ==
    /\ u \in inflight
    /\ u.pc = "storage"
    /\ u \notin inflight'

\* The storage write of this step failed: the bucket took no object.
storageWriteFailed == bucket' = bucket

\* Every request in the handler body has made one storage write if it
\* awaits its insert and none otherwise, has made no insert yet, and is in
\* the handler body once; every answered upload made at most one storage
\* write, an insert only after it, and has left the handler body.
atMostOneCallEach ==
    /\ \A u \in inflight :
          /\ u.calls.storage = (IF u.pc = "db" THEN 1 ELSE 0)
          /\ u.calls.db = 0
          /\ \A w \in inflight : w.id = u.id => w = u
    /\ \A i \in DOMAIN last :
          isUpload(last[i].req) =>
             /\ last[i].calls.storage <= 1
             /\ last[i].calls.db <= last[i].calls.storage
             /\ \A w \in inflight : w.id # last[i].id

\* A failed storage write is answered 500 with no insert and the request
\* leaves the handler body; a successful one goes on to the insert.
failedWriteIsFinal ==
    \A u \in inflight :
       storageReturned(u) =>
          IF storageWriteFailed
          THEN /\ last' # <<>>
               /\ last'[1].id = u.id
               /\ last'[1].req = u.req
               /\ last'[1].status = 500
               /\ last'[1].calls.storage = 1
               /\ last'[1].calls.db = 0
               /\ images' = images
               /\ u.id \notin {w.id : w \in inflight'}
          ELSE \E w \in inflight' :
                  /\ w.id = u.id
                  /\ w.pc = "db"
                  /\ w.calls.storage = 1

\* A request in the handler body either stays where it was, moves from its
\* storage write to its insert, or has just entered under a fresh number.
noStepBack ==
    \A w \in inflight' :
       \/ w \in inflight
       \/ \E u \in inflight : u.id = w.id /\ u.pc = "storage" /\ w.pc = "db"
       \/ /\ w.id \notin inflightIds
          /\ w.id = nUploads + 1
          /\ nUploads' = nUploads + 1
          /\ w.pc = "storage"

\* C11: when the storage write of a paid valid upload fails the response is
\* 500, no insert is attempted and the request leaves the handler; a request
\* only ever moves from its storage write to its insert and never back, so
\* over its lifetime it issues at most one storage write and at most one
\* insert, whatever these calls return.
C11_StorageFailureIs500NoRetry ==
    /\ []atMostOneCallEach
    /\ [][failedWriteIsFinal /\ noStepBack]_vars

\* C11 witness: a paid valid upload is answered 500 after its one storage
\* write failed because the storage service was down, while the table is
\* empty.
C11_Witness ==
    /\ last # <<>>
    /\ isUpload(last[1].req)
    /\ paid(last[1])
    /\ "storage" \in last[1].down
    /\ last[1].status = 500
    /\ last[1].calls.storage = 1
    /\ last[1].calls.db = 0
    /\ images = <<>>

====
